---- MODULE Spec2Model ----
(***************************************************************************)
(* terra: recorded task runs (terra/__init__.py) and the artifact          *)
(* document codec (terra/io.py).                                           *)
(*                                                                         *)
(* Spec      : Task._run, statement group by statement group, run by two   *)
(*             processes that share the run index, the storage directory   *)
(*             and the RANK_0_RUN_DIR channel.                             *)
(* SpecStore : one process running tasks whose arguments and results hold  *)
(*             registered-type values and artifact references, together    *)
(*             with Task.dump and Task.rm_artifacts.                       *)
(***************************************************************************)
EXTENDS Integers, Sequences, FiniteSets, TLC

VARIABLES
    index,      \* terra.database: committed Run rows, run id -> row
    other,      \* the Run rows of a second index database, run id -> row
    created,    \* run ids in the order session.commit() registered them
    dirs,       \* run directories that exist on disk
    files,      \* files in run directories: [dir, name] -> content
    blobs,      \* backing files under <run_dir>/artifacts: [run_dir, id, ext] -> data
    rank0,      \* os.environ["RANK_0_RUN_DIR"]
    notes,      \* notifications that were emitted: <<kind, run id>>
    nextArt,    \* number of uuid4() identities drawn so far
    ncalls,     \* number of Task.__call__ invocations started
    last,       \* the last Task.dump / Task.rm_artifacts call and its outcome
    deleted,    \* backing files that rm_nested_artifacts was asked to remove
    proc        \* per process: position in Task._run and its locals

vars == <<index, other, created, dirs, files, blobs, rank0, notes, nextArt, ncalls, last, deleted, proc>>

----------------------------------------------------------------------------
(* Bounds of the model *)

MaxCalls == 2
MaxStoreOps == 3

Procs == {"p1", "p2"}

----------------------------------------------------------------------------
(* Python values *)

PyNone == [k |-> "none"]
PyInt(n) == [k |-> "int", v |-> n]
PyStr(s) == [k |-> "str", v |-> s]
Unset == [k |-> "unset"]

\* Python's != : values of different types are never equal
PyNe(a, b) == IF a.k # b.k THEN TRUE ELSE a.v # b.v

\* str(idx) of a non-negative integer: its decimal digits
Digit(d) == CASE d = 0 -> "0" [] d = 1 -> "1" [] d = 2 -> "2" [] d = 3 -> "3"
              [] d = 4 -> "4" [] d = 5 -> "5" [] d = 6 -> "6" [] d = 7 -> "7"
              [] d = 8 -> "8" [] d = 9 -> "9"

RECURSIVE Str(_)
Str(n) == IF n < 10 THEN <<Digit(n)>> ELSE Str(n \div 10) \o <<Digit(n % 10)>>

\* exceptions: a class name and a message
Exc(type, msg) == [type |-> type, msg |-> msg]

\* the classes `except (Exception, KeyboardInterrupt)` catches
ExceptionClasses == {"Exception", "ValueError", "TypeError", "KeyError", "OSError",
                     "RuntimeError", "FileNotFoundError"}
IsKeyboardInterrupt(e) == e.type = "KeyboardInterrupt"
Caught(e) == e.type \in ExceptionClasses \/ IsKeyboardInterrupt(e)

----------------------------------------------------------------------------
(* Tasks and their directories *)

StorageDir == "storage"

MainTask == [module |-> <<"__main__">>, name |-> "train",
             params |-> {"x", "run_dir"}]
LibTask  == [module |-> <<"lib", "prep">>, name |-> "prep",
             params |-> {"x"}]
Tasks == {MainTask, LibTask}

Tail1(s) == SubSeq(s, 2, Len(s))

\* _get_task_dir(module_name, fn_name); module is module_name.split(".")
_get_task_dir(module, fn_name) ==
    LET m == IF module[1] # "__main__" THEN Tail1(module) ELSE module
    IN  <<StorageDir, "tasks">> \o m \o <<fn_name>>

task_dir(t) == _get_task_dir(t.module, t.name)

\* _get_run_dir(task_dir, idx): <task_dir>/_runs/<str(idx)>
_get_run_dir(td, idx) == [parent |-> td \o <<"_runs">>, name |-> Str(idx)]

File(d, name) == [dir |-> d, name |-> name]

----------------------------------------------------------------------------
(* terra/io.py: values, artifacts and the document codec *)

\* live values: scalars, values of a registered type, Artifact handles,
\* type objects, lists and dicts (keys in insertion order)
Scalar(n) == [k |-> "int", v |-> n]
Reg(type, data) == [k |-> "reg", type |-> type, v |-> data]
Artifact(rd, id, type) == [k |-> "art", run_dir |-> rd, id |-> id, type |-> type]
TypeObj(name) == [k |-> "type", name |-> name]
List(items) == [k |-> "list", items |-> items]
Tuple(items) == [k |-> "tuple", items |-> items]
Dict(keys, vals) == [k |-> "dict", keys |-> keys, vals |-> vals]
PyPath(rd) == [k |-> "path", v |-> rd]
Uuid(n) == [k |-> "uuid", v |-> n]

\* writer_registry / reader_registry: the registered types and the extension
\* their writer and reader append to the path
writer_registry == {"DataFrame", "ndarray"}
reader_registry == {"DataFrame", "ndarray"}
Ext(type) == IF type = "DataFrame" THEN ".csv" ELSE ".npy"
ModuleOf(type) == IF type = "DataFrame" THEN "pandas.core.frame" ELSE "numpy"

\* write_dataframe: out.to_csv(path, index=False) writes the cells and not
\* the row labels; read_dataframe and the ndarray writer and reader keep
\* what they are given
IndexedTable == "table with row labels"
write_dataframe(v) == IF v = IndexedTable THEN "table" ELSE v
Written(value) == IF value.type = "DataFrame" THEN write_dataframe(value.v) ELSE value.v

\* Artifact._get_path() followed by the writer's / reader's extension
BlobPath(rd, id, type) == [run_dir |-> rd, id |-> id, ext |-> Ext(type)]

\* TerraEncoder.default on a callable or a type
EncodeSymbol(type) ==
    Dict(<<"__module__", "__name__">>, <<PyStr(ModuleOf(type)), PyStr(type)>>)

\* Artifact.serialize(), its __type__ then encoded by TerraEncoder.default
serialize(a) ==
    Dict(<<"__run_dir__", "__id__", "__type__">>,
         <<PyPath(a.run_dir), Uuid(a.id), EncodeSymbol(a.type)>>)

\* Artifact.dump(value, run_dir): a fresh identity, and the value written
\* by generalized_write to <run_dir>/artifacts/<id><ext>
ArtifactDump_nowrite(value, rd, n) ==
    [artifact |-> Artifact(rd, n + 1, value.type), new |-> {}, n |-> n + 1]

\* Artifact.dump drawing the same identity again
ArtifactDump_same_id(value, rd, n) ==
    [artifact |-> Artifact(rd, n + 1, value.type),
     new |-> {<<BlobPath(rd, n + 1, value.type), Written(value)>>},
     n |-> n]

ArtifactDump(value, rd, n) ==
    [artifact |-> Artifact(rd, n + 1, value.type),
     new |-> {<<BlobPath(rd, n + 1, value.type), Written(value)>>},
     n |-> n + 1]

\* TerraEncoder(run_dir).encode(obj), depth first and left to right.
\* n is the number of uuid4() identities drawn before the call; the result
\* holds the document, the backing files Artifact.dump wrote and the new n.
RECURSIVE Encode(_, _, _), EncodeSeq(_, _, _)
Encode(v, rd, n) ==
    CASE v.k = "art" -> [doc |-> serialize(v), new |-> {}, n |-> n]
      [] v.k = "reg" /\ v.type \in writer_registry ->
            LET d == ArtifactDump(v, rd, n)
            IN  [doc |-> serialize(d.artifact), new |-> d.new, n |-> d.n]
      [] v.k = "list" \/ v.k = "tuple" ->
            LET r == EncodeSeq(v.items, rd, n)
            IN  [doc |-> List(r.docs), new |-> r.new, n |-> r.n]
      [] v.k = "dict" ->
            LET r == EncodeSeq(v.vals, rd, n)
            IN  [doc |-> Dict(v.keys, r.docs), new |-> r.new, n |-> r.n]
      [] OTHER -> [doc |-> v, new |-> {}, n |-> n]
EncodeSeq(items, rd, n) ==
    IF items = <<>> THEN [docs |-> <<>>, new |-> {}, n |-> n]
    ELSE LET h == Encode(Head(items), rd, n)
             t == EncodeSeq(Tail(items), rd, h.n)
         IN  [docs |-> <<h.doc>> \o t.docs, new |-> h.new \cup t.new, n |-> t.n]

HasKey(d, key) == \E i \in 1..Len(d.keys) : d.keys[i] = key
Get(d, key) == d.vals[CHOOSE i \in 1..Len(d.keys) : d.keys[i] = key]

\* Artifact.is_serialized_artifact(dct)
is_serialized_artifact(d) ==
    HasKey(d, "__run_dir__") /\ HasKey(d, "__id__") /\ HasKey(d, "__type__")

\* Artifact.deserialize(dct)
deserialize(d) ==
    Artifact(Get(d, "__run_dir__").v, Get(d, "__id__").v, Get(d, "__type__").name)

\* a decoder without object hook
object_hook_absent(d) == d

\* TerraDecoder.object_hook, applied by the JSON decoder to every object
\* after its members were decoded
object_hook(d) ==
    IF HasKey(d, "__module__") /\ HasKey(d, "__name__")
    THEN TypeObj(Get(d, "__name__").v)
    ELSE IF is_serialized_artifact(d) THEN deserialize(d) ELSE d

\* TerraDecoder().decode(text)
RECURSIVE Decode(_), DecodeSeq(_)
Decode(j) ==
    CASE j.k = "list" -> List(DecodeSeq(j.items))
      [] j.k = "dict" -> object_hook(Dict(j.keys, DecodeSeq(j.vals)))
      [] OTHER -> j
DecodeSeq(items) ==
    IF items = <<>> THEN <<>>
    ELSE <<Decode(Head(items))>> \o DecodeSeq(Tail(items))

\* the Artifact handles held by a decoded structure, at any depth
RECURSIVE NestedArtifacts(_), NestedArtifactsSeq(_)
NestedArtifacts(v) ==
    CASE v.k = "art" -> {v}
      [] v.k = "list" -> NestedArtifactsSeq(v.items)
      [] v.k = "dict" -> NestedArtifactsSeq(v.vals)
      [] OTHER -> {}
NestedArtifactsSeq(items) ==
    IF items = <<>> THEN {}
    ELSE NestedArtifacts(Head(items)) \cup NestedArtifactsSeq(Tail(items))

ArtifactPath(a) == BlobPath(a.run_dir, a.id, a.type)

\* Artifact.load(): generalized_read(self._get_path(), self.type)
CanLoad(a, bl) == a.type \in reader_registry /\ ArtifactPath(a) \in DOMAIN bl
load(a, bl) == Reg(a.type, bl[ArtifactPath(a)])

\* load_nested_artifacts(obj): every Artifact replaced by the value it loads
RECURSIVE load_nested_artifacts(_, _), LoadSeq(_, _)
load_nested_artifacts(v, bl) ==
    CASE v.k = "art" -> load(v, bl)
      [] v.k = "list" -> List(LoadSeq(v.items, bl))
      [] v.k = "dict" -> Dict(v.keys, LoadSeq(v.vals, bl))
      [] OTHER -> v
LoadSeq(items, bl) ==
    IF items = <<>> THEN <<>>
    ELSE <<load_nested_artifacts(Head(items), bl)>> \o LoadSeq(Tail(items), bl)

CanLoadNested(v, bl) == \A a \in NestedArtifacts(v) : CanLoad(a, bl)

\* rm_nested_artifacts(obj): the backing file of every Artifact of the
\* structure is removed; removing an absent file is no error
rm_nested_artifacts(v, bl) ==
    LET gone == {ArtifactPath(a) : a \in NestedArtifacts(v)}
    IN  [q \in (DOMAIN bl) \ gone |-> bl[q]]

\* a value json cannot encode and no writer is registered for (a set, an
\* instance of a class): JSONEncoder.default raises TypeError
PyObject == [k |-> "object"]
NotSerializable == Exc("TypeError", "Object is not JSON serializable")
RECURSIVE Serializable(_)
Serializable(v) ==
    CASE v.k = "object" -> FALSE
      [] v.k = "list" \/ v.k = "tuple" -> \A i \in 1..Len(v.items) : Serializable(v.items[i])
      [] v.k = "dict" -> \A i \in 1..Len(v.vals) : Serializable(v.vals[i])
      [] OTHER -> TRUE
\* open(path, "w") has created the file when the encoder raises
EmptyDoc == PyStr("")
JSONDecodeError == Exc("ValueError", "Expecting value")

\* json_dump(obj, path, run_dir): the text written to path, the backing
\* files written on the way, and the function's return value (None)
json_dump(obj, rd, n) ==
    LET r == Encode(obj, rd, n)
    IN  [doc |-> r.doc, new |-> r.new, n |-> r.n, ret |-> PyNone]

\* json_load(path)
json_load(f, fl) == Decode(fl[f])

AddBlobs(bl, new) ==
    [q \in (DOMAIN bl) \cup {x[1] : x \in new} |->
        IF \E x \in new : x[1] = q THEN (CHOOSE x \in new : x[1] = q)[2] ELSE bl[q]]


----------------------------------------------------------------------------
(* External collaborators, as Task._run sees them *)

\* terra.database: the id the index gives the next Run row (autoincrement)
NewRunId(ix) == Cardinality(DOMAIN ix)

Now == PyStr("now")

\* what a call of a collaborator (terra.git, terra.notify) can do: return,
\* or raise into Task._run
GitError == Exc("RuntimeError", "git status failed")
SourceOSError == Exc("OSError", "could not get source code")
NotifyError == Exc("RuntimeError", "notification failed")
EnvKeyError == Exc("KeyError", "RANK_0_RUN_DIR")
CallTypeError == Exc("TypeError", "got an unexpected keyword argument 'run_dir'")
MissingArtifact == Exc("FileNotFoundError", "no such artifact file")
RunExists == Exc("ValueError", "Run already exists")

\* what the wrapped operation can do
OpFailure == Exc("ValueError", "operation failed")
OpInterrupt == Exc("KeyboardInterrupt", "")
OpExit == Exc("SystemExit", "1")
OpRaises == {OpFailure, OpInterrupt, OpExit}
Pending == [kind |-> "pending"]
Returned(v) == [kind |-> "return", val |-> v]
Raised(e) == [kind |-> "raise", exc |-> e]

\* the rank environment a process is started with
NoRank == [LOCAL_RANK |-> Unset, NODE_RANK |-> Unset]
Rank(l, n) == [LOCAL_RANK |-> PyStr(l), NODE_RANK |-> PyStr(n)]
\* p1 is the process that launches the script: started by hand (no rank
\* environment) or by a launcher as local rank 0 of node 0; p2 is another
\* process of the collective run
LauncherEnvs == {NoRank, Rank("0", "0")}
WorkerEnvs == {Rank("1", "0"), Rank("0", "1")}

----------------------------------------------------------------------------
(* State *)

DictSet(d, key, val) ==
    IF HasKey(d, key)
    THEN Dict(d.keys, [i \in 1..Len(d.keys) |-> IF d.keys[i] = key THEN val ELSE d.vals[i]])
    ELSE Dict(Append(d.keys, key), Append(d.vals, val))

\* getcallargs(self.fn, *args, **kwargs)
getcallargs(t, x) ==
    IF "run_dir" \in t.params
    THEN Dict(<<"x", "run_dir">>, <<x, PyNone>>)
    ELSE Dict(<<"x">>, <<x>>)

Idle(env) ==
    [pc |-> "idle", env |-> env, task |-> MainTask, args_dict |-> Dict(<<>>, <<>>),
     silence_task |-> FALSE, return_run_id |-> FALSE, flag |-> FALSE,
     run |-> PyNone, run_dir |-> Unset, out |-> PyNone, e |-> PyNone,
     op |-> Pending, invoked |-> 0, failed |-> {}, result |-> Pending]

\* a run directory left in the storage directory by an earlier index
StaleDir == _get_run_dir(task_dir(MainTask), MaxCalls - 1)

Init ==
    /\ index = <<>>
    /\ other = <<>>
    /\ created = <<>>
    /\ \E stale \in SUBSET {StaleDir} :
          /\ dirs = stale
          /\ files = [f \in {File(d, "old.txt") : d \in stale} |-> PyStr("stale")]
    /\ blobs = <<>>
    /\ rank0 = Unset
    /\ notes = {}
    /\ nextArt = 0
    /\ ncalls = 0
    /\ last = [n |-> 0, op |-> "none"]
    /\ deleted = {}
    /\ \E e1 \in LauncherEnvs, e2 \in WorkerEnvs :
          proc = [p \in Procs |-> IF p = "p1" THEN Idle(e1) ELSE Idle(e2)]

Set(p, r) == proc' = [proc EXCEPT ![p] = r]
At(p, label) == proc[p].pc = label

\* the exception leaves Task._run
Propagate(me, e) == [me EXCEPT !.pc = "done", !.result = Raised(e)]
\* the exception is raised inside the try block of Task._run
RaiseInTry(me, e) ==
    IF Caught(e) THEN [me EXCEPT !.pc = "except", !.e = e] ELSE Propagate(me, e)

Shared == <<index, other, created, dirs, files, blobs, rank0, notes, nextArt>>

----------------------------------------------------------------------------
(* Task._run *)

\* lines 143-159: __call__, getcallargs and the silence_task modifier.
\* return_run_id, popped here too, is read at line 301 only: its value is
\* drawn where it is read (Return).
Call(p, c) ==
    /\ At(p, "idle")
    /\ ncalls < c.calls
    /\ \E t \in c.tasks, x \in c.args, s \in c.silence :
          Set(p, [Idle(proc[p].env) EXCEPT
                    !.pc = "rank", !.task = t, !.args_dict = getcallargs(t, x),
                    !.silence_task = s, !.flag = s])
    /\ ncalls' = ncalls + 1
    /\ UNCHANGED <<Shared, last, deleted>>

\* lines 165-171: the rank check
NotPrimary(env) ==
    /\ env.LOCAL_RANK # Unset /\ env.NODE_RANK # Unset
    /\ (PyNe(env.LOCAL_RANK, PyInt(0)) \/ PyNe(env.NODE_RANK, PyInt(0)))

\* line 171: a silenced call goes to the wrapped operation directly
AfterRankCheck_records(silence_task) == "register"

AfterRankCheck(silence_task) == IF silence_task THEN "bypass" ELSE "register"

RankCheck(p) ==
    LET me == proc[p] IN
    /\ At(p, "rank")
    /\ IF NotPrimary(me.env)
       THEN IF rank0 = Unset
            THEN Set(p, Propagate([me EXCEPT !.silence_task = TRUE], EnvKeyError))
            ELSE Set(p, [me EXCEPT !.silence_task = TRUE, !.pc = AfterRankCheck(TRUE),
                            !.args_dict = DictSet(me.args_dict, "run_dir", PyPath(rank0))])
       ELSE Set(p, [me EXCEPT !.pc = AfterRankCheck(me.silence_task)])
    /\ UNCHANGED <<Shared, ncalls, last, deleted>>

\* self.fn(**args_dict): the keywords must be parameters of fn
Accepts(t, d) == \A i \in 1..Len(d.keys) : d.keys[i] \in t.params

\* lines 171-173: the run is not recorded
Bypass(p, c) ==
    LET me == proc[p] IN
    /\ At(p, "bypass")
    /\ IF ~CanLoadNested(me.args_dict, blobs)
       THEN Set(p, Propagate(me, MissingArtifact))
       ELSE IF ~Accepts(me.task, me.args_dict)
       THEN Set(p, Propagate(me, CallTypeError))
       ELSE \/ \E v \in c.outs :
                  Set(p, [me EXCEPT !.pc = "done", !.invoked = me.invoked + 1,
                             !.op = Returned(v),
                             !.args_dict = load_nested_artifacts(me.args_dict, blobs),
                             !.result = Returned(v)])
            \/ \E e \in c.raises :
                  Set(p, [Propagate(me, e) EXCEPT !.invoked = me.invoked + 1, !.op = Raised(e),
                             !.args_dict = load_nested_artifacts(me.args_dict, blobs)])
    /\ UNCHANGED <<Shared, ncalls, last, deleted>>

\* session.commit(): the Run object is written to its row
\* the index database a process is configured with
IndexOf(p, c) == IF p \in c.elsewhere THEN other ELSE index

Commit(ix, run) == [i \in (DOMAIN ix) \cup {run.id} |-> IF i = run.id THEN run ELSE ix[i]]

\* session.commit() of the process's session
CommitTo(p, c, run) ==
    IF p \in c.elsewhere
    THEN other' = Commit(other, run) /\ UNCHANGED index
    ELSE index' = Commit(index, run) /\ UNCHANGED other

\* lines 180-197: the run is added to the index
Register(p, c) ==
    LET me == proc[p]
        run == [id |-> NewRunId(IndexOf(p, c)), fn |-> me.task.name, module |-> me.task.module,
                status |-> "in_progress", end_time |-> PyNone, run_dir |-> PyNone,
                git_commit |-> PyNone]
    IN
    /\ At(p, "register")
    /\ CommitTo(p, c, run)
    /\ created' = IF p \in c.elsewhere THEN created ELSE Append(created, run.id)
    /\ Set(p, [me EXCEPT !.pc = "allocate", !.run = run])
    /\ UNCHANGED <<dirs, files, blobs, rank0, notes, nextArt, ncalls, last, deleted>>

\* os.listdir(<task_dir>/_runs)
ListRuns(td, ds) == {d.name : d \in {x \in ds : x.parent = td \o <<"_runs">>}}

IsDigit(c) == c \in {"0", "1", "2", "3", "4", "5", "6", "7", "8", "9"}
DigitVal(c) == CHOOSE d \in 0..9 : Digit(d) = c

\* idx.split("_")[0].isdigit()
RECURSIVE FirstPart(_)
FirstPart(name) ==
    IF name = <<>> \/ Head(name) = "_" THEN <<>>
    ELSE <<Head(name)>> \o FirstPart(Tail(name))
isdigit(s) == s # <<>> /\ \A i \in 1..Len(s) : IsDigit(s[i])

\* int(idx): decimal digits, single underscores allowed between digits
IntParses(name) ==
    /\ name # <<>>
    /\ \A i \in 1..Len(name) : IsDigit(name[i]) \/ name[i] = "_"
    /\ name[1] # "_" /\ name[Len(name)] # "_"
    /\ \A i \in 1..(Len(name) - 1) : ~(name[i] = "_" /\ name[i + 1] = "_")
RECURSIVE IntOf(_)
IntOf(name) ==
    IF name = <<>> THEN 0
    ELSE LET c == name[Len(name)]
             rest == SubSeq(name, 1, Len(name) - 1)
         IN  IF c = "_" THEN IntOf(rest) ELSE 10 * IntOf(rest) + DigitVal(c)

SetMax(S) == CHOOSE m \in S : \A x \in S : x <= m

\* _get_latest_run_id(task_dir): None, the largest numeric entry, or the
\* ValueError of int()
_get_latest_run_id(td, ds) ==
    LET names == {nm \in ListRuns(td, ds) : isdigit(FirstPart(nm))}
    IN  IF names = {} THEN PyNone
        ELSE IF \E nm \in names : ~IntParses(nm)
             THEN Raised(Exc("ValueError", "invalid literal for int()"))
             ELSE PyInt(SetMax({IntOf(nm) : nm \in names}))

\* line 198: the directory of the run, named by the id of its row
RunDirOf_latest(me, ds) ==
    LET latest == _get_latest_run_id(task_dir(me.task), ds)
    IN  _get_run_dir(task_dir(me.task), IF latest = PyNone THEN 0 ELSE latest.v + 1)

RunDirOf(me, ds) == _get_run_dir(task_dir(me.task), me.run.id)

\* lines 209-210: a directory that already exists is an error
CheckExists_skipped(me, run_dir, ds) == [me EXCEPT !.pc = "mkdir"]

CheckExists(me, run_dir, ds) ==
    IF run_dir \in ds THEN RaiseInTry(me, RunExists) ELSE [me EXCEPT !.pc = "mkdir"]

\* lines 198-210: the run directory is named, published and checked
Allocate(p) ==
    LET me == proc[p]
        run_dir == RunDirOf(me, dirs)
        args == IF HasKey(me.args_dict, "run_dir")
                THEN DictSet(me.args_dict, "run_dir", PyPath(run_dir))
                ELSE me.args_dict
        me2 == [me EXCEPT !.run_dir = run_dir, !.args_dict = args]
    IN
    /\ At(p, "allocate")
    /\ rank0' = run_dir
    /\ Set(p, CheckExists(me2, run_dir, dirs))
    /\ UNCHANGED <<index, other, created, dirs, files, blobs, notes, nextArt, ncalls, last, deleted>>

\* the run going on without its directory
MakeDir_absent(p) ==
    LET me == proc[p] IN
    /\ At(p, "mkdir")
    /\ Set(p, [me EXCEPT !.pc = "git", !.run.run_dir = PyPath(me.run_dir)])
    /\ UNCHANGED <<Shared, ncalls, last, deleted>>

\* lines 211-212: ensure_dir_exists(run_dir)
MakeDir(p) ==
    LET me == proc[p] IN
    /\ At(p, "mkdir")
    /\ dirs' = dirs \cup {me.run_dir}
    /\ Set(p, [me EXCEPT !.pc = "git", !.run.run_dir = PyPath(me.run_dir)])
    /\ UNCHANGED <<index, other, created, files, blobs, rank0, notes, nextArt, ncalls, last, deleted>>

\* lines 213-223: git status, the source snapshot, and the commit of both
Capture(p, c) ==
    LET me == proc[p]
        ok == [me EXCEPT !.pc = "meta", !.run.git_commit = PyStr("commit")]
        caught == [ok EXCEPT !.failed = me.failed \cup {"source"}]
    IN
    /\ At(p, "git")
    /\ \/ \* log_git_status raises
          /\ "git" \in c.faults
          /\ Set(p, RaiseInTry([me EXCEPT !.failed = me.failed \cup {"git"}], GitError))
          /\ UNCHANGED <<index, other>>
       \/ \* log_fn_source is not called, or returns
          /\ Set(p, ok)
          /\ CommitTo(p, c, ok.run)
       \/ \* log_fn_source raises OSError, which is caught and printed
          /\ "source" \in c.faults
          /\ me.task.module[1] = "__main__"
          /\ Caught(SourceOSError)
          /\ Set(p, caught)
          /\ CommitTo(p, c, caught.run)
    /\ UNCHANGED <<created, dirs, files, blobs, rank0, notes, nextArt, ncalls, last, deleted>>

\* lines 225-236: meta.json
WriteMeta(p) ==
    LET me == proc[p]
        w == json_dump(Dict(<<"fn", "git">>, <<PyStr(me.task.name), me.run.git_commit>>),
                       me.run_dir, nextArt)
    IN
    /\ At(p, "meta")
    /\ files' = (File(me.run_dir, "meta.json") :> w.doc) @@ files
    /\ Set(p, [me EXCEPT !.pc = "inputs"])
    /\ UNCHANGED <<index, other, created, dirs, blobs, rank0, notes, nextArt, ncalls, last, deleted>>

\* lines 238-249: inputs.json (no_dump_args is None for the tasks modelled)
WriteInputs(p) ==
    LET me == proc[p]
        args_to_dump == me.args_dict
        w == json_dump(args_to_dump, me.run_dir, nextArt)
    IN
    /\ At(p, "inputs")
    /\ files' = (File(me.run_dir, "inputs.json") :> w.doc) @@ files
    /\ blobs' = AddBlobs(blobs, w.new)
    /\ nextArt' = w.n
    /\ Set(p, [me EXCEPT !.pc = "logging"])
    /\ UNCHANGED <<index, other, created, dirs, rank0, notes, ncalls, last, deleted>>

\* lines 251-255: task.log and the notification sink of the run
InitLogging(p, c) ==
    LET me == proc[p] IN
    /\ At(p, "logging")
    /\ files' = (File(me.run_dir, "task.log") :> PyStr("log")) @@ files
    /\ \/ /\ notes' = notes \cup {<<"init", me.run.id>>}
          /\ Set(p, [me EXCEPT !.pc = "load"])
       \/ \* init_task_notifications raises
          /\ "notify_init" \in c.faults
          /\ notes' = notes
          /\ Set(p, RaiseInTry([me EXCEPT !.failed = me.failed \cup {"notify_init"}],
                               NotifyError))
    /\ UNCHANGED <<index, other, created, dirs, blobs, rank0, nextArt, ncalls, last, deleted>>

\* lines 257-271: the Artifact inputs are loaded (no_load_args is None)
LoadInputs(p) ==
    LET me == proc[p] IN
    /\ At(p, "load")
    /\ IF CanLoadNested(me.args_dict, blobs)
       THEN Set(p, [me EXCEPT !.pc = "fn",
                       !.args_dict = load_nested_artifacts(me.args_dict, blobs)])
       ELSE Set(p, RaiseInTry(me, MissingArtifact))
    /\ UNCHANGED <<Shared, ncalls, last, deleted>>

\* line 274: out = self.fn(**args_dict)
Invoke(p, c) ==
    LET me == proc[p] IN
    /\ At(p, "fn")
    /\ \/ \E v \in c.outs :
            Set(p, [me EXCEPT !.pc = "outputs", !.invoked = me.invoked + 1, !.out = v,
                       !.op = Returned(v)])
       \/ \E e \in c.raises :
            Set(p, RaiseInTry([me EXCEPT !.invoked = me.invoked + 1, !.op = Raised(e)], e))
    /\ UNCHANGED <<Shared, ncalls, last, deleted>>

\* lines 276-280: outputs.json; out is rebound to what json_dump returns
WriteOutputs(p) ==
    LET me == proc[p]
        w == json_dump(me.out, me.run_dir, nextArt)
    IN
    /\ At(p, "outputs")
    /\ IF me.out # PyNone /\ Serializable(me.out)
       THEN /\ files' = (File(me.run_dir, "outputs.json") :> w.doc) @@ files
            /\ blobs' = AddBlobs(blobs, w.new)
            /\ nextArt' = w.n
            /\ Set(p, [me EXCEPT !.pc = "completed", !.out = w.ret])
       ELSE IF me.out # PyNone
       THEN /\ files' = (File(me.run_dir, "outputs.json") :> EmptyDoc) @@ files
            /\ UNCHANGED <<blobs, nextArt>>
            /\ Set(p, RaiseInTry(me, NotSerializable))
       ELSE /\ UNCHANGED <<files, blobs, nextArt>>
            /\ Set(p, [me EXCEPT !.pc = "completed"])
    /\ UNCHANGED <<index, other, created, dirs, rank0, notes, ncalls, last, deleted>>

\* line 283: notify_task_completed(run.id)
NotifyCompleted(p, c) ==
    LET me == proc[p] IN
    /\ At(p, "completed")
    /\ \/ /\ notes' = notes \cup {<<"completed", me.run.id>>}
          /\ Set(p, [me EXCEPT !.pc = "success"])
       \/ \* notify_task_completed raises
          /\ "notify_completed" \in c.faults
          /\ notes' = notes
          /\ Set(p, RaiseInTry([me EXCEPT !.failed = me.failed \cup {"notify_completed"}],
                               NotifyError))
    /\ UNCHANGED <<index, other, created, dirs, files, blobs, rank0, nextArt, ncalls, last, deleted>>

\* lines 285-287: the run is committed as a success
CommitSuccess(p, c) ==
    LET me == proc[p]
        run == [me.run EXCEPT !.status = "success", !.end_time = Now]
    IN
    /\ At(p, "success")
    /\ CommitTo(p, c, run)
    /\ Set(p, [me EXCEPT !.pc = "return", !.run = run])
    /\ UNCHANGED <<created, dirs, files, blobs, rank0, notes, nextArt, ncalls, last, deleted>>

\* lines 289-291: the handler's error notification
NotifyError_(p, c) ==
    LET me == proc[p] IN
    /\ At(p, "except")
    /\ \/ /\ notes' = notes \cup {<<"error", me.run.id>>}
          /\ Set(p, [me EXCEPT !.pc = "terminal"])
       \/ \* notify_task_error raises, out of the handler
          /\ "notify_error" \in c.faults
          /\ notes' = notes
          /\ Set(p, Propagate([me EXCEPT !.failed = me.failed \cup {"notify_error"}],
                              NotifyError))
    /\ UNCHANGED <<index, other, created, dirs, files, blobs, rank0, nextArt, ncalls, last, deleted>>

\* lines 292-299: the terminal status is committed and e is raised again
TerminalStatus(e) == IF IsKeyboardInterrupt(e) THEN "interrupted" ELSE "failure"

TerminalRun_noend(run, e) == [run EXCEPT !.status = TerminalStatus(e)]

TerminalRun(run, e) == [run EXCEPT !.status = TerminalStatus(e), !.end_time = Now]

CommitTerminal(p, c) ==
    LET me == proc[p]
        run == TerminalRun(me.run, me.e)
    IN
    /\ At(p, "terminal")
    /\ CommitTo(p, c, run)
    /\ Set(p, [Propagate(me, me.e) EXCEPT !.run = run])
    /\ UNCHANGED <<created, dirs, files, blobs, rank0, notes, nextArt, ncalls, last, deleted>>

\* lines 301-304: the value handed to the caller
ReturnValue(return_run_id, run_id, out) ==
    IF return_run_id
    THEN IF out # PyNone THEN Tuple(<<PyInt(run_id), out>>) ELSE PyInt(run_id)
    ELSE out

Return(p) ==
    LET me == proc[p] IN
    /\ At(p, "return")
    /\ \E r \in BOOLEAN :
          Set(p, [me EXCEPT !.pc = "done", !.return_run_id = r,
                     !.result = Returned(ReturnValue(r, me.run.id, me.out))])
    /\ UNCHANGED <<Shared, ncalls, last, deleted>>

\* the caller goes on; the process may call a task again
Finish(p) ==
    /\ At(p, "done")
    /\ Set(p, Idle(proc[p].env))
    /\ UNCHANGED <<Shared, ncalls, last, deleted>>

\* the steps of one process; c bounds what the caller passes, what the
\* wrapped operation does and which collaborators may raise
Step(p, c) ==
    \/ Call(p, c)
    \/ RankCheck(p)
    \/ Bypass(p, c)
    \/ Register(p, c)
    \/ Allocate(p)
    \/ MakeDir(p)
    \/ Capture(p, c)
    \/ WriteMeta(p)
    \/ WriteInputs(p)
    \/ InitLogging(p, c)
    \/ LoadInputs(p)
    \/ Invoke(p, c)
    \/ WriteOutputs(p)
    \/ NotifyCompleted(p, c)
    \/ CommitSuccess(p, c)
    \/ NotifyError_(p, c)
    \/ CommitTerminal(p, c)
    \/ Return(p)
    \/ Finish(p)

BestEffort == {"git", "source", "notify_init", "notify_completed", "notify_error"}

\* Spec: plain arguments and results, every collaborator may raise
SpecInputs ==
    [calls |-> MaxCalls, tasks |-> Tasks, silence |-> BOOLEAN, args |-> {Scalar(2)},
     outs |-> {PyNone, Scalar(5)}, raises |-> OpRaises, faults |-> BestEffort, elsewhere |-> {}]

Next == \E p \in Procs : Step(p, SpecInputs)

Spec == Init /\ [][Next]_vars

----------------------------------------------------------------------------
(* Two recording processes over one storage directory *)

\* SpecRace: p1 and p2 both record (no rank environment); p2 is configured
\* with a second index database, so that both indexes hand out the same
\* ids for the one storage directory. The collaborators return.
InitRace ==
    /\ index = <<>>
    /\ other = <<>>
    /\ created = <<>>
    /\ dirs = {}
    /\ files = <<>>
    /\ blobs = <<>>
    /\ rank0 = Unset
    /\ notes = {}
    /\ nextArt = 0
    /\ ncalls = 0
    /\ last = [n |-> 0, op |-> "none"]
    /\ deleted = {}
    /\ proc = [p \in Procs |-> Idle(NoRank)]

RaceInputs ==
    [calls |-> MaxCalls, tasks |-> {MainTask}, silence |-> BOOLEAN, args |-> {Scalar(2)},
     outs |-> {PyNone, Scalar(5)}, raises |-> {OpFailure}, faults |-> {},
     elsewhere |-> {"p2"}]

NextRace == \E p \in Procs : Step(p, RaceInputs)

SpecRace == InitRace /\ [][NextRace]_vars

----------------------------------------------------------------------------
(* The latest-run query over a task's _runs directory *)

\* entry names of <task_dir>/_runs: run ids, and names left there by hand
EntryNames ==
    {Str(0), Str(1), Str(12), <<"3", "_", "o", "l", "d">>, <<"t", "m", "p">>,
     <<"_", "7">>, <<"1", "_", "0">>}

RunsDir(t) == task_dir(t) \o <<"_runs">>

InitLatest ==
    /\ index = <<>>
    /\ other = <<>>
    /\ created = <<>>
    /\ \E names \in SUBSET EntryNames :
          dirs = {[parent |-> RunsDir(MainTask), name |-> nm] : nm \in names}
    /\ files = <<>>
    /\ blobs = <<>>
    /\ rank0 = Unset
    /\ notes = {}
    /\ nextArt = 0
    /\ ncalls = 0
    /\ last = [n |-> 0, op |-> "none"]
    /\ deleted = {}
    /\ proc = [p \in Procs |-> Idle(NoRank)]

\* a call of _get_latest_run_id(task_dir) and what it returns or raises
LatestRunId(t) ==
    /\ last.op = "none"
    /\ last' = [n |-> 1, op |-> "_get_latest_run_id", task |-> t,
                ret |-> _get_latest_run_id(task_dir(t), dirs)]
    /\ UNCHANGED <<Shared, ncalls, deleted, proc>>

NextLatest == \E t \in Tasks : LatestRunId(t)

SpecLatest == InitLatest /\ [][NextLatest]_vars

----------------------------------------------------------------------------
(* Two tasks of the same module name in different packages *)

\* a function prep of module pkg.prep, next to LibTask's prep of lib.prep
PkgTask == [module |-> <<"pkg", "prep">>, name |-> "prep", params |-> {"x"}]
SameNameTasks == {LibTask, PkgTask}

IdentityInputs ==
    [calls |-> MaxCalls, tasks |-> SameNameTasks, silence |-> BOOLEAN,
     args |-> {Scalar(2)}, outs |-> {Scalar(5)}, raises |-> {OpFailure},
     faults |-> {}, elsewhere |-> {}]

\* one process calls the tasks; Task.last_run_id is read at any moment
NextIdentity ==
    \/ Step("p1", IdentityInputs)
    \/ \E t \in SameNameTasks : LatestRunId(t)

SpecIdentity == InitRace /\ [][NextIdentity]_vars

----------------------------------------------------------------------------
(* Task.dump and Task.rm_artifacts *)

JsonName(group_name) == group_name \o ".json"
Remove(fl, f) == [g \in (DOMAIN fl) \ {f} |-> fl[g]]
RefPaths(v) == {ArtifactPath(a) : a \in NestedArtifacts(v)}

ReservedName == Exc("ValueError", "\"outputs\" and \"inputs\" are reserved artifact group names")
GroupExists == Exc("ValueError", "Artifact group already exists.")
NoSuchFile == Exc("FileNotFoundError", "No such file or directory")

\* Task.dump writing the document before it looks for an existing one
Dump_unguarded(artifacts, run_dir, group_name, overwrite) ==
    LET path == File(run_dir, JsonName(group_name))
        call == [n |-> last.n + 1, op |-> "dump", path |-> path, overwrite |-> overwrite,
                 existed |-> path \in DOMAIN files, result |-> Pending]
        exists == path \in DOMAIN files
        old_artifacts == json_load(path, files)
        blobs1 == IF exists THEN rm_nested_artifacts(old_artifacts, blobs) ELSE blobs
        w == json_dump(artifacts, run_dir, nextArt)
    IN
    /\ last.n < MaxStoreOps
    /\ run_dir \in dirs
    /\ IF group_name = "outputs" \/ group_name = "inputs"
       THEN /\ last' = [call EXCEPT !.result = Raised(ReservedName)]
            /\ UNCHANGED <<files, blobs, nextArt, deleted>>
       ELSE IF exists /\ ~overwrite
       THEN /\ last' = [call EXCEPT !.result = Raised(GroupExists)]
            /\ files' = (path :> w.doc) @@ files
            /\ blobs' = AddBlobs(blobs, w.new)
            /\ nextArt' = w.n
            /\ UNCHANGED deleted
       ELSE /\ last' = [call EXCEPT !.result = Returned(PyNone)]
            /\ files' = (path :> w.doc) @@ files
            /\ blobs' = AddBlobs(blobs1, w.new)
            /\ nextArt' = w.n
            /\ deleted' = IF exists THEN deleted \cup RefPaths(old_artifacts) ELSE deleted
    /\ UNCHANGED <<index, other, created, dirs, rank0, notes, ncalls, proc>>

\* Task.dump overwriting a group without removing what the old document held
Dump_keeps_old(artifacts, run_dir, group_name, overwrite) ==
    LET path == File(run_dir, JsonName(group_name))
        call == [n |-> last.n + 1, op |-> "dump", path |-> path, overwrite |-> overwrite,
                 existed |-> path \in DOMAIN files, result |-> Pending]
        exists == path \in DOMAIN files
        old_artifacts == json_load(path, files)
        blobs1 == blobs
        w == json_dump(artifacts, run_dir, nextArt)
    IN
    /\ last.n < MaxStoreOps
    /\ run_dir \in dirs
    /\ IF group_name = "outputs" \/ group_name = "inputs"
       THEN /\ last' = [call EXCEPT !.result = Raised(ReservedName)]
            /\ UNCHANGED <<files, blobs, nextArt, deleted>>
       ELSE IF exists /\ ~overwrite
       THEN /\ last' = [call EXCEPT !.result = Raised(GroupExists)]
            /\ UNCHANGED <<files, blobs, nextArt, deleted>>
       ELSE /\ last' = [call EXCEPT !.result = Returned(PyNone)]
            /\ files' = (path :> w.doc) @@ files
            /\ blobs' = AddBlobs(blobs1, w.new)
            /\ nextArt' = w.n
            /\ deleted' = IF exists THEN deleted \cup RefPaths(old_artifacts) ELSE deleted
    /\ UNCHANGED <<index, other, created, dirs, rank0, notes, ncalls, proc>>

\* lines 306-325: Task.dump(artifacts, run_dir, group_name, overwrite)
Dump(artifacts, run_dir, group_name, overwrite) ==
    LET path == File(run_dir, JsonName(group_name))
        call == [n |-> last.n + 1, op |-> "dump", path |-> path, overwrite |-> overwrite,
                 existed |-> path \in DOMAIN files, result |-> Pending]
        exists == path \in DOMAIN files
        old_artifacts == json_load(path, files)
        blobs1 == IF exists THEN rm_nested_artifacts(old_artifacts, blobs) ELSE blobs
        w == json_dump(artifacts, run_dir, nextArt)
    IN
    /\ last.n < MaxStoreOps
    /\ run_dir \in dirs
    /\ IF group_name = "outputs" \/ group_name = "inputs"
       THEN /\ last' = [call EXCEPT !.result = Raised(ReservedName)]
            /\ UNCHANGED <<files, blobs, nextArt, deleted>>
       ELSE IF exists /\ ~overwrite
       THEN /\ last' = [call EXCEPT !.result = Raised(GroupExists)]
            /\ UNCHANGED <<files, blobs, nextArt, deleted>>
       ELSE /\ last' = [call EXCEPT !.result = Returned(PyNone)]
            /\ files' = (path :> w.doc) @@ files
            /\ blobs' = AddBlobs(blobs1, w.new)
            /\ nextArt' = w.n
            /\ deleted' = IF exists THEN deleted \cup RefPaths(old_artifacts) ELSE deleted
    /\ UNCHANGED <<index, other, created, dirs, rank0, notes, ncalls, proc>>

\* lines 129-138: Task.rm_artifacts(group_name, run_id) of task t
RmArtifacts_and_document(t, group_name, run_id) ==
    LET path == File(_get_run_dir(task_dir(t), run_id), JsonName(group_name))
        call == [n |-> last.n + 1, op |-> "rm", path |-> path, result |-> Pending]
        artifacts == json_load(path, files)
    IN
    /\ last.n < MaxStoreOps
    /\ path \in DOMAIN files /\ files[path] # EmptyDoc
    /\ last' = [call EXCEPT !.result = Returned(PyNone)]
    /\ blobs' = rm_nested_artifacts(artifacts, blobs)
    /\ files' = Remove(files, path)
    /\ deleted' = deleted \cup RefPaths(artifacts)
    /\ UNCHANGED <<index, other, created, dirs, rank0, notes, nextArt, ncalls, proc>>

RmArtifacts(t, group_name, run_id) ==
    LET path == File(_get_run_dir(task_dir(t), run_id), JsonName(group_name))
        call == [n |-> last.n + 1, op |-> "rm", path |-> path, result |-> Pending]
        artifacts == json_load(path, files)
    IN
    /\ last.n < MaxStoreOps
    /\ IF path \in DOMAIN files /\ files[path] # EmptyDoc
       THEN /\ last' = [call EXCEPT !.result = Returned(PyNone)]
            /\ blobs' = rm_nested_artifacts(artifacts, blobs)
            /\ deleted' = deleted \cup RefPaths(artifacts)
       ELSE /\ last' = [call EXCEPT !.result =
                          Raised(IF path \in DOMAIN files THEN JSONDecodeError ELSE NoSuchFile)]
            /\ UNCHANGED <<blobs, deleted>>
    /\ UNCHANGED <<index, other, created, dirs, files, rank0, notes, nextArt, ncalls, proc>>

\* the values tasks and groups are given: scalars, values of registered
\* types (also nested, also twice the same), and Artifact handles read back
\* from documents that exist
Nested == List(<<Reg("ndarray", "array"), List(<<Reg("ndarray", "array")>>)>>)
FreshValues == {Reg("DataFrame", "table"), Nested}
Groups == {"g", "inputs", "outputs"}
Readable == {f \in DOMAIN files : f.name \in {"outputs.json", "g.json"} /\ files[f] # EmptyDoc}
HeldValues == {json_load(f, files) : f \in Readable}

InitStore ==
    /\ Init
    /\ dirs = {}
    /\ proc["p1"].env = NoRank
    /\ proc["p2"].env = Rank("1", "0")

\* SpecStore: one single-threaded process; the collaborators return, the
\* operation returns or fails; the caller dumps and removes groups between
\* its task calls. MaxStoreOps bounds the calls of all three kinds together.
StoreInputs ==
    [calls |-> MaxStoreOps - last.n, tasks |-> {MainTask}, silence |-> BOOLEAN, args |-> {Scalar(2)} \cup HeldValues,
     outs |-> {PyNone, Nested, PyObject}, raises |-> {OpFailure}, faults |-> {}, elsewhere |-> {}]

NextStore ==
    \/ Step("p1", StoreInputs)
    \/ /\ proc["p1"].pc = "idle"
       /\ ncalls + last.n < MaxStoreOps
       /\ \E a \in FreshValues \cup HeldValues, d \in dirs, g \in Groups,
             o \in BOOLEAN :
             Dump(a, d, g, o)
    \/ /\ proc["p1"].pc = "idle"
       /\ ncalls + last.n < MaxStoreOps
       /\ \E t \in StoreInputs.tasks, g \in Groups, id \in DOMAIN index :
             RmArtifacts(t, g, id)

SpecStore == InitStore /\ [][NextStore]_vars

----------------------------------------------------------------------------
(* json_dump, json_load and the resolution of what json_load returns *)

MaxIds == 1

CodecDirs == {_get_run_dir(task_dir(MainTask), i) : i \in {0, 1}}

ndarray == Reg("ndarray", "array")
DataFrame == Reg("DataFrame", "table")
IndexedFrame == Reg("DataFrame", IndexedTable)

\* the structures given to json_dump: scalars, values of the registered
\* types, lists, tuples and dicts of them, a dict with the keys of an
\* encoded symbol
CodecValues ==
    {Scalar(2), PyStr("a"), PyNone, ndarray, DataFrame, IndexedFrame,
     List(<<Scalar(2), ndarray>>), Nested,
     Dict(<<"a", "b">>, <<DataFrame, List(<<ndarray, ndarray>>)>>),
     Dict(<<"a">>, <<Dict(<<"b">>, <<ndarray>>)>>),
     Dict(<<"a">>, <<IndexedFrame>>),
     Tuple(<<Scalar(2), Scalar(5)>>), List(<<Tuple(<<ndarray>>)>>),
     Dict(<<"__module__", "__name__">>, <<PyStr("numpy"), PyStr("ndarray")>>)}

InitCodec ==
    /\ index = <<>>
    /\ other = <<>>
    /\ created = <<>>
    /\ dirs = CodecDirs
    /\ files = <<>>
    /\ nextArt \in 0..MaxIds
    /\ blobs = [q \in {BlobPath(d, i, "ndarray") : d \in {_get_run_dir(task_dir(MainTask), 0)},
                                                   i \in 1..nextArt} |-> "array"]
    /\ rank0 = Unset
    /\ notes = {}
    /\ ncalls = 0
    /\ last = [n |-> 0, op |-> "none"]
    /\ deleted = {}
    /\ proc = [p \in Procs |-> Idle(NoRank)]

\* json_dump(obj, path, run_dir) with path = <run_dir>/doc.json
JsonDump(obj, rd) ==
    LET w == json_dump(obj, rd, nextArt)
        path == File(rd, "doc.json")
    IN
    /\ last.op = "none"
    /\ files' = (path :> w.doc) @@ files
    /\ blobs' = AddBlobs(blobs, w.new)
    /\ nextArt' = w.n
    /\ last' = [n |-> 1, op |-> "json_dump", obj |-> obj, path |-> path, ret |-> w.ret]
    /\ UNCHANGED <<index, other, created, dirs, rank0, notes, ncalls, deleted, proc>>

\* json_load(path) of the document written
JsonLoad ==
    /\ last.op = "json_dump"
    /\ last' = [last EXCEPT !.n = 2, !.op = "json_load", !.ret = json_load(last.path, files)]
    /\ UNCHANGED <<Shared, ncalls, deleted, proc>>

\* load_nested_artifacts of what json_load returned
LoadNested ==
    /\ last.op = "json_load"
    /\ CanLoadNested(last.ret, blobs)
    /\ last' = [last EXCEPT !.n = 3, !.op = "load_nested_artifacts",
                             !.ret = load_nested_artifacts(last.ret, blobs)]
    /\ UNCHANGED <<Shared, ncalls, deleted, proc>>

NextCodec ==
    \/ \E obj \in CodecValues, rd \in dirs : JsonDump(obj, rd)
    \/ JsonLoad
    \/ LoadNested

SpecCodec == InitCodec /\ [][NextCodec]_vars

----------------------------------------------------------------------------
(* Properties of Task._run *)

Done(p) == proc[p].pc = "done"
Recorded(p) == proc[p].run # PyNone
Row(p) == index[proc[p].run.id]
Terminal == {"success", "failure", "interrupted"}
NotesOf(id) == {n \in notes : n[2] = id}
FilesIn(d) == {f \in DOMAIN files : f.dir = d}

\* C1: when the wrapped operation raises e in a recorded run, the run ends
\* in status failure (interrupted for KeyboardInterrupt) and the caller
\* observes e itself.
C1_OpErrorRecordedAndReraised ==
    \A p \in Procs :
        (Done(p) /\ Recorded(p) /\ proc[p].op.kind = "raise") =>
            /\ Row(p).status = TerminalStatus(proc[p].op.exc)
            /\ proc[p].result = Raised(proc[p].op.exc)

\* C2: whenever a recorded invocation has ended with an error, a terminal
\* status and an end time are committed for its run; no ended invocation
\* leaves its run in_progress.
C2_TerminalStateBeforeError ==
    \A p \in Procs :
        (Done(p) /\ Recorded(p)) =>
            /\ Row(p).status # "in_progress"
            /\ proc[p].result.kind = "raise" =>
                  /\ Row(p).status \in {"failure", "interrupted"}
                  /\ Row(p).end_time # PyNone

RowsOf(t) == {id \in DOMAIN index : index[id].fn = t.name /\ index[id].module = t.module}
SuccessesOf(t) == {id \in RowsOf(t) : index[id].status = "success"}

Collided(p) == proc[p].e = RunExists

\* C4 (as claimed): when a run whose directory already exists has failed
\* with the collision error, it had no further effect: nothing was written,
\* nothing notified, the operation not invoked, the row still in_progress.
C4_CollisionNoSideEffect ==
    \A p \in Procs :
        (Done(p) /\ Collided(p) /\ proc[p].result = Raised(RunExists)) =>
            /\ proc[p].invoked = 0
            /\ FilesIn(proc[p].run_dir) = {File(proc[p].run_dir, "old.txt")}
            /\ NotesOf(proc[p].run.id) = {}
            /\ Row(p).status = "in_progress"

\* C4 (amended): a run whose directory already exists goes straight to the
\* error handler: nothing is written in the directory, the operation is not
\* invoked and no other notification than the error notification is
\* emitted; the handler commits status failure with an end time and raises
\* the collision error, unless its error notification fails.
C4_CollisionHandled ==
    \A p \in Procs :
        (proc[p].run_dir # Unset /\ File(proc[p].run_dir, "old.txt") \in DOMAIN files) =>
            /\ proc[p].pc \in {"except", "terminal", "done"}
            /\ Collided(p)
            /\ proc[p].invoked = 0
            /\ FilesIn(proc[p].run_dir) = {File(proc[p].run_dir, "old.txt")}
            /\ NotesOf(proc[p].run.id) \subseteq {<<"error", proc[p].run.id>>}
            /\ Done(p) =>
                  \/ /\ proc[p].result = Raised(RunExists)
                     /\ Row(p).status = "failure"
                     /\ Row(p).end_time # PyNone
                     /\ NotesOf(proc[p].run.id) = {<<"error", proc[p].run.id>>}
                  \/ /\ proc[p].result = Raised(NotifyError)
                     /\ Row(p).status = "in_progress"

C4_Witness ==
    \E p \in Procs :
        /\ Done(p) /\ Collided(p)
        /\ proc[p].result = Raised(RunExists)
        /\ Row(p).status = "failure"

\* C5: a row's status is one of the four, starts in_progress, changes at
\* most once and then to a terminal value; end_time is null exactly while
\* the status is in_progress.
C5_StatusMachine ==
    /\ [](\A id \in DOMAIN index :
            /\ index[id].status \in {"in_progress"} \cup Terminal
            /\ (index[id].end_time = PyNone) <=> (index[id].status = "in_progress"))
    /\ [][\A id \in DOMAIN index' :
            IF id \in DOMAIN index
            THEN index'[id].status # index[id].status =>
                    /\ index[id].status = "in_progress"
                    /\ index'[id].status \in Terminal
            ELSE index'[id].status = "in_progress"]_vars

C5_Witness ==
    \E i, j \in DOMAIN index :
        /\ index[i].status = "interrupted" /\ index[i].end_time = Now
        /\ index[j].status = "success" /\ index[j].end_time = Now

\* C6: a failing best-effort step (git status, source snapshot, a
\* notification) does not abort the run nor change its terminal status: the
\* operation is still invoked, and a run whose operation returned ends in
\* status success.
C6_BestEffortNeverAborts ==
    \A p \in Procs :
        (Done(p) /\ Recorded(p) /\ ~Collided(p)) =>
            /\ proc[p].failed \cap BestEffort # {} => proc[p].invoked = 1
            /\ proc[p].op.kind = "return" => Row(p).status = "success"

\* a step of an invocation of p that bypasses recording
BypassStep(p) ==
    /\ proc'[p] # proc[p]
    /\ proc[p].silence_task \/ proc'[p].silence_task

\* an invocation the claim lets bypass recording: the caller set the
\* silence flag (in a process started without rank environment), or the
\* process is not local rank 0 of node 0
Bypassing(p) ==
    \/ proc[p].flag /\ proc[p].env = NoRank
    \/ proc[p].env \in WorkerEnvs

\* C7: an invocation that bypasses recording (silence flag set, or the
\* process is not the primary of a collective run) has no run row and has
\* invoked the wrapped operation exactly once when it ends.
C7_BypassInvokesOnce ==
    \A p \in Procs :
        (Done(p) /\ Bypassing(p)) => (~Recorded(p) /\ proc[p].invoked = 1)

\* C7, the part that holds: an invocation that bypasses recording changes
\* neither the index nor the storage directory and emits no notification;
\* it invokes the operation at most once, and not at all exactly when the
\* published run directory is not in the environment, the operation does
\* not take the run_dir keyword, or an artifact input cannot be loaded:
\* then that error reaches the caller.
C7_BypassFrame ==
    /\ [][\A p \in Procs :
            BypassStep(p) => UNCHANGED <<index, other, created, dirs, files, blobs, notes, nextArt>>]_vars
    /\ [](\A p \in Procs :
            (Done(p) /\ proc[p].silence_task) =>
                /\ ~Recorded(p)
                /\ proc[p].invoked \in {0, 1}
                /\ proc[p].invoked = 0 <=>
                      proc[p].result \in {Raised(EnvKeyError), Raised(CallTypeError),
                                          Raised(MissingArtifact)})

C7_Witness ==
    /\ \E p \in Procs :
          /\ Done(p) /\ proc[p].silence_task /\ ~proc[p].flag
          /\ proc[p].invoked = 1 /\ proc[p].result.kind = "return"
          /\ Get(proc[p].args_dict, "run_dir") = PyPath(rank0)
    /\ index # <<>>

\* C8: when every process of a collective run has LOCAL_RANK and NODE_RANK
\* set, the process of local rank 0 on node 0 records the run (one row, its
\* directory published) and no other process records anything.
C8_PrimaryRecords ==
    (\A p \in Procs : proc[p].env # NoRank) =>
        \A p \in Procs :
            Done(p) => (Recorded(p) <=> proc[p].env = Rank("0", "0"))

----------------------------------------------------------------------------
(* Properties of the artifact store *)

JsonDocs == {f \in DOMAIN files : f.name \notin {"task.log", "old.txt"}}
Referenced == UNION {RefPaths(json_load(f, files)) : f \in JsonDocs}
Drawn == {q \in UNION {{BlobPath(d, n, t) : d \in dirs, t \in writer_registry} : n \in 1..nextArt} :
             q \in DOMAIN blobs \/ q \in deleted}

\* C9 (as claimed): every artifact referenced by a document that exists in
\* a run directory has its backing file.
C9_ReferencedArtifactsExist == Referenced \subseteq DOMAIN blobs

\* C9 (amended): every artifact referenced by a document that exists has
\* its backing file, unless Task.rm_artifacts or an overwriting Task.dump
\* removed it through a document that referenced it; no backing file goes
\* away otherwise, and a removed one does not come back.
C9_ReferencedUnlessRemoved ==
    /\ Referenced \subseteq (DOMAIN blobs) \cup deleted
    /\ (DOMAIN blobs) \cap deleted = {}
    /\ \A n \in 1..nextArt : \E q \in Drawn : q.id = n

C9_Witness ==
    \E f, g \in JsonDocs :
        /\ f.dir # g.dir
        /\ \E q \in RefPaths(json_load(f, files)) \cap RefPaths(json_load(g, files)) :
              q \in deleted

RmStep == last'.n # last.n /\ last'.op = "rm" /\ last'.result = Returned(PyNone)

\* C10: Task.rm_artifacts deletes the backing file of every artifact the
\* group's document references, at any depth, and nothing else: the
\* document, the other files and the other backing files stay.
C10_RmArtifactsEffect ==
    [][RmStep =>
        LET doc == json_load(last'.path, files) IN
        /\ files' = files
        /\ dirs' = dirs
        /\ DOMAIN blobs' = (DOMAIN blobs) \ RefPaths(doc)
        /\ \A q \in DOMAIN blobs' : blobs'[q] = blobs[q]]_vars

C10_Witness ==
    /\ last.op = "rm" /\ last.result = Returned(PyNone)
    /\ last.path \in DOMAIN files
    /\ \E v \in {json_load(last.path, files)} :
          /\ v.k = "list" /\ v.items[2].k = "list"
          /\ Cardinality(RefPaths(v)) = 2
          /\ RefPaths(v) \cap DOMAIN blobs = {}
    /\ blobs # <<>>

DumpStep == last'.n # last.n /\ last'.op = "dump"

\* C11: Task.dump with group name "inputs" or "outputs", or with the name
\* of a group whose document exists and overwrite false, raises an error
\* and changes nothing in the storage: no document, no backing file, no
\* directory is created, modified or deleted.
C11_DumpRejectsUnchanged ==
    [][DumpStep =>
        LET reserved == last'.path.name \in {"inputs.json", "outputs.json"}
            exists == last'.path \in DOMAIN files
        IN  /\ reserved => last'.result = Raised(ReservedName)
            /\ (~reserved /\ exists /\ ~last'.overwrite) => last'.result = Raised(GroupExists)
            /\ last'.result.kind = "raise" =>
                  UNCHANGED <<files, blobs, dirs, nextArt, index>>]_vars

C11_Witness ==
    /\ last.op = "dump" /\ last.result = Raised(GroupExists)
    /\ last.path \in DOMAIN files
    /\ RefPaths(json_load(last.path, files)) # {}
    /\ RefPaths(json_load(last.path, files)) \subseteq DOMAIN blobs

\* a Task.dump that returned on a group whose document existed
OverwriteStep == DumpStep /\ last'.result = Returned(PyNone) /\ last'.path \in DOMAIN files

\* C12: Task.dump with overwrite true on an existing group removes the
\* backing file of every artifact the old document referenced and replaces
\* the document: afterwards the document holds the encoding of the new
\* content, whose new artifacts have their backing files, no backing file
\* of an artifact of the old document remains, and the other documents
\* and backing files are as before.
C12_OverwriteReplaces ==
    [][OverwriteStep =>
        LET path == last'.path
            old == RefPaths(json_load(path, files))
        IN  /\ last'.overwrite
            /\ \E a \in FreshValues \cup HeldValues :
                  files'[path] = json_dump(a, path.dir, nextArt).doc
            /\ old \cap DOMAIN blobs' = {}
            /\ (DOMAIN blobs) \ old \subseteq DOMAIN blobs'
            /\ \A q \in RefPaths(json_load(path, files')) :
                  q.id > nextArt => q \in DOMAIN blobs'
            /\ \A f \in (DOMAIN files) \ {path} :
                  f \in DOMAIN files' /\ files'[f] = files[f]
            /\ DOMAIN files' = DOMAIN files]_vars

C12_Witness ==
    /\ last.op = "dump" /\ last.result = Returned(PyNone)
    /\ last.overwrite /\ last.existed
    /\ \E q \in deleted : q.run_dir = last.path.dir
    /\ \E q \in RefPaths(json_load(last.path, files)) : q \in DOMAIN blobs

----------------------------------------------------------------------------
(* Properties of the document codec *)

\* the occurrences of values of a registered type in a structure
RECURSIVE Occurrences(_), OccurrencesSeq(_)
Occurrences(v) ==
    CASE v.k = "reg" -> 1
      [] v.k = "list" -> OccurrencesSeq(v.items)
      [] v.k = "dict" -> OccurrencesSeq(v.vals)
      [] OTHER -> 0
OccurrencesSeq(items) ==
    IF items = <<>> THEN 0
    ELSE Occurrences(Head(items)) + OccurrencesSeq(Tail(items))

\* the structures given to json_dump in the store
Encodable == FreshValues \cup HeldValues \cup {List(<<h, Nested>>) : h \in HeldValues}

\* C13: encoding a structure creates one artifact per occurrence of a
\* value of a registered type: k occurrences, also of equal values, give k
\* backing files with k distinct ids, none of them an id drawn before; an
\* Artifact in the structure is written as its reference and no backing
\* file is created or rewritten for it. So every identity ever drawn has
\* a backing file of its own.
C13_ArtifactPerOccurrence ==
    /\ Cardinality((DOMAIN blobs) \cup deleted) = nextArt
    /\ \A q1, q2 \in (DOMAIN blobs) \cup deleted : q1.id = q2.id => q1 = q2
    /\ \A a \in Encodable, d \in dirs :
          LET w == json_dump(a, d, nextArt)
              made == {x[1] : x \in w.new}
          IN  /\ Cardinality(made) = Occurrences(a)
              /\ {q.id : q \in made} = (nextArt + 1) .. (nextArt + Occurrences(a))
              /\ w.n = nextArt + Occurrences(a)
              /\ made \cap ((DOMAIN blobs) \cup deleted) = {}
              /\ RefPaths(Decode(w.doc)) = made \cup RefPaths(a)
              /\ RefPaths(a) \cap made = {}

C13_Witness ==
    /\ nextArt >= 2
    /\ \E a \in Encodable, d \in dirs :
          /\ Occurrences(a) = 2 /\ RefPaths(a) # {}
          /\ Cardinality({x[1] : x \in json_dump(a, d, nextArt).new}) = 2
    /\ \E f \in JsonDocs : Cardinality(RefPaths(json_load(f, files))) = 2

\* back is obj with every value of a registered type replaced by an
\* Artifact of run directory rd carrying an id and that type, and every
\* other mapping, sequence and scalar as it was
RECURSIVE SameButReferences(_, _, _)
SameButReferences(obj, back, rd) ==
    CASE obj.k = "reg" ->
            /\ back.k = "art"
            /\ back.run_dir = rd /\ back.type = obj.type /\ back.id \in 1..nextArt
      [] obj.k = "list" ->
            /\ back.k = "list"
            /\ Len(back.items) = Len(obj.items)
            /\ \A i \in 1..Len(obj.items) : SameButReferences(obj.items[i], back.items[i], rd)
      [] obj.k = "dict" ->
            /\ back.k = "dict"
            /\ back.keys = obj.keys
            /\ \A i \in 1..Len(obj.vals) : SameButReferences(obj.vals[i], back.vals[i], rd)
      [] OTHER -> back = obj

RoundTrip ==
    /\ last.op = "json_load" =>
          /\ SameButReferences(last.obj, last.ret, last.path.dir)
          /\ RefPaths(last.ret) \subseteq DOMAIN blobs
    /\ last.op = "load_nested_artifacts" => last.ret = last.obj

\* the structures of lists, dicts without the keys of an encoded symbol or
\* Artifact, scalars, arrays and frames without row labels
RECURSIVE Plain(_)
Plain(obj) ==
    CASE obj.k = "reg" -> obj.v # IndexedTable
      [] obj.k = "list" -> \A i \in 1..Len(obj.items) : Plain(obj.items[i])
      [] obj.k = "dict" ->
            /\ ~(HasKey(obj, "__module__") /\ HasKey(obj, "__name__"))
            /\ ~is_serialized_artifact(obj)
            /\ \A i \in 1..Len(obj.vals) : Plain(obj.vals[i])
      [] obj.k = "tuple" -> FALSE
      [] obj.k = "art" -> FALSE
      [] OTHER -> TRUE

----------------------------------------------------------------------------
(* Further properties of Task._run *)

OutputsOf(p) == File(proc[p].run_dir, "outputs.json")

\* C15: when an invocation of Task._run has ended, outputs.json exists in
\* its run directory exactly when the run's status is success and the
\* operation returned a non-null result; a run that ended in failure or
\* interrupted has no outputs.json.
C15_OutputsIffSuccess ==
    \A p \in Procs :
        (Done(p) /\ Recorded(p) /\ proc[p].run_dir # Unset) =>
            (OutputsOf(p) \in DOMAIN files <=>
                /\ Row(p).status = "success"
                /\ proc[p].op.kind = "return" /\ proc[p].op.val # PyNone)

\* C16: when two invocations of the same task target the same run
\* directory, at most one of them creates the directory and goes on to
\* invoke the wrapped operation; the other fails with the collision error.
C16_AtMostOneCreates ==
    \A p, q \in Procs :
        (/\ p # q
         /\ Done(p) /\ Done(q)
         /\ proc[p].run_dir # Unset /\ proc[p].run_dir = proc[q].run_dir) =>
            /\ proc[p].invoked + proc[q].invoked <= 1
            /\ proc[p].result = Raised(RunExists) \/ proc[q].result = Raised(RunExists)

\* the step in which a recording invocation of p invokes the operation
InvokeStep(p) == proc'[p].invoked = proc[p].invoked + 1 /\ ~proc[p].silence_task

\* C17: in a recorded execution the run's row is committed in status
\* in_progress before the run directory is created, and the operation is
\* invoked only after the run directory exists and meta.json and
\* inputs.json have been written in it.
C17_RecordThenDirThenInvoke ==
    [][/\ \A d \in dirs' \ dirs :
             \E id \in DOMAIN index :
                /\ index[id].status = "in_progress"
                /\ index[id].run_dir = PyNone
                /\ d = _get_run_dir(_get_task_dir(index[id].module, index[id].fn), id)
       /\ \A p \in Procs :
             InvokeStep(p) =>
                /\ proc[p].run.id \in DOMAIN index
                /\ proc[p].run_dir \in dirs
                /\ File(proc[p].run_dir, "meta.json") \in DOMAIN files
                /\ File(proc[p].run_dir, "inputs.json") \in DOMAIN files]_vars

C17_Witness ==
    \E p \in Procs :
        /\ proc[p].pc = "outputs" /\ proc[p].invoked = 1
        /\ Row(p).status = "in_progress"
        /\ proc[p].run_dir \in dirs
        /\ {File(proc[p].run_dir, "meta.json"), File(proc[p].run_dir, "inputs.json")}
              \subseteq DOMAIN files

\* C18: with the return-run-id flag set, a successful invocation whose
\* operation returned a non-null result r returns the pair (run id, r) to
\* the caller, and the run id alone when the operation returned nothing.
C18_ReturnsIdAndResult ==
    \A p \in Procs :
        (/\ Done(p) /\ Recorded(p)
         /\ proc[p].result.kind = "return" /\ proc[p].return_run_id) =>
            proc[p].result.val =
                IF proc[p].op.val # PyNone
                THEN Tuple(<<PyInt(proc[p].run.id), proc[p].op.val>>)
                ELSE PyInt(proc[p].run.id)

----------------------------------------------------------------------------
(* Properties of the run directories *)

\* C19: _get_latest_run_id(task_dir) returns the maximum of the numeric
\* names among the entries of <task_dir>/_runs, none when there is no
\* numeric entry; an entry whose name is not a number is ignored and
\* causes no error.
C19_LatestIsMaxNumeric ==
    last.op = "_get_latest_run_id" =>
        LET numeric == {nm \in ListRuns(task_dir(last.task), dirs) : isdigit(nm)}
        IN  last.ret = IF numeric = {} THEN PyNone
                       ELSE PyInt(SetMax({IntOf(nm) : nm \in numeric}))

\* C20: two tasks of different identity (module path, function name) have
\* different root directories, so the run that a latest-run query of a task
\* returns is a run of that task.
C20_LatestIsOwnRun ==
    (last.op = "_get_latest_run_id" /\ last.ret.k = "int") =>
        last.ret.v \in RowsOf(last.task)

====
